---- MODULE Spec2Model ----
(***************************************************************************)
(* The collinear game of collinear_game_analysis.py: Board builds the      *)
(* catalog of maximal grid lines as bitmasks, has_forced_win runs the      *)
(* memoized recursive search win(state) over them.                         *)
(*                                                                         *)
(* Masks are Python ints (unbounded, here always >= 0); the bit operators  *)
(* are computed bit by bit.  The recursion of win is an explicit stack of  *)
(* frames, one frame per active call.                                      *)
(***************************************************************************)
EXTENDS Integers, Sequences, FiniteSets, TLC

\* Largest number of grid points of a board with m, n >= 1 that is solved.
MaxPoints == 8
\* A catalog of at most MaxShuffle lines is listed in every possible order.
MaxShuffle == 6
\* Largest dimension of a board that is only constructed (SpecCatalog).
CatMaxDim == 3
\* Largest number of grid points of a board that is solved repeatedly (SpecRuns).
RunMaxPoints == 4

----------------------------------------------------------------------------
(* Python int operators *)

RECURSIVE BitAnd(_, _)
BitAnd(a, b) ==
    IF a = 0 \/ b = 0 THEN 0
    ELSE (a % 2) * (b % 2) + 2 * BitAnd(a \div 2, b \div 2)

RECURSIVE BitOr(_, _)
BitOr(a, b) ==
    IF a = 0 THEN b
    ELSE IF b = 0 THEN a
    ELSE (IF a % 2 = 1 \/ b % 2 = 1 THEN 1 ELSE 0) + 2 * BitOr(a \div 2, b \div 2)

RECURSIVE BitXor(_, _)
BitXor(a, b) ==
    IF a = 0 THEN b
    ELSE IF b = 0 THEN a
    ELSE (IF a % 2 = b % 2 THEN 0 ELSE 1) + 2 * BitXor(a \div 2, b \div 2)

\* 1 << k, for k >= 0
Shl1(k) == 2 ^ k

\* int.bit_count
RECURSIVE bit_count(_)
bit_count(a) == IF a = 0 THEN 0 ELSE (a % 2) + bit_count(a \div 2)

abs(a) == IF a < 0 THEN 0 - a ELSE a

\* math.gcd on non-negative arguments
RECURSIVE gcd(_, _)
gcd(a, b) == IF b = 0 THEN a ELSE gcd(b, a % b)

----------------------------------------------------------------------------
(* Board.enumerate_lines_bitmask *)

xy2id(x, y, n_) == x * n_ + y

in_bounds(x, y, m_, n_) == 0 <= x /\ x < m_ /\ 0 <= y /\ y < n_

\* KeepDir without the primitivity test.
KeepDirNoGcd(dx, dy) ==
    /\ ~(dx = 0 /\ dy = 0)
    /\ ~(dx < 0 \/ (dx = 0 /\ dy < 0))

\* The direction is kept: not (0,0), primitive, and the canonical one of each
\* opposite pair.
KeepDir(dx, dy) ==
    /\ ~(dx = 0 /\ dy = 0)
    /\ gcd(abs(dx), abs(dy)) = 1
    /\ ~(dx < 0 \/ (dx = 0 /\ dy < 0))

\* dirs, as the set of its elements <<dx, dy>>: the list is only iterated to
\* add masks to a set, so its order has no effect.
dirs(m_, n_) ==
    { d \in ((0 - (m_ - 1)) .. (m_ - 1)) \X ((0 - (n_ - 1)) .. (n_ - 1)) :
        KeepDir(d[1], d[2]) }

\* The while loop from (x, y): the mask of the visited points and their count.
RECURSIVE walk(_, _, _, _, _, _)
walk(x, y, dx, dy, m_, n_) ==
    IF in_bounds(x, y, m_, n_)
    THEN LET rest == walk(x + dx, y + dy, dx, dy, m_, n_)
         IN  [mask   |-> BitOr(Shl1(xy2id(x, y, n_)), rest.mask),
              length |-> rest.length + 1]
    ELSE [mask |-> 0, length |-> 0]

\* IsStart without the predecessor test: every cell starts a walk.
IsStartAny(x0, y0, dx, dy, m_, n_) == TRUE

\* (x0, y0) is a start of direction (dx, dy): its predecessor is off the grid.
IsStart(x0, y0, dx, dy, m_, n_) == ~in_bounds(x0 - dx, y0 - dy, m_, n_)

\* LongEnough that keeps only lines of three points or more.
LongEnoughThree(length) == length >= 3

\* LongEnough that also keeps a line of one point.
LongEnoughOne(length) == length >= 1

\* A walked line is added to the set.
LongEnough(length) == length >= 2

\* The set `lines` when the function returns.
enumerate_lines_bitmask(m_, n_) ==
    LET cand == { c \in dirs(m_, n_) \X (0 .. (m_ - 1)) \X (0 .. (n_ - 1)) :
                    IsStart(c[2], c[3], c[1][1], c[1][2], m_, n_) }
        kept == { c \in cand :
                    LongEnough(walk(c[2], c[3], c[1][1], c[1][2], m_, n_).length) }
    IN  { walk(c[2], c[3], c[1][1], c[1][2], m_, n_).mask : c \in kept }

----------------------------------------------------------------------------
(* list(lines): the iteration order of a set is not specified *)

RECURSIVE Perms(_)
Perms(S) ==
    IF S = {} THEN { <<>> }
    ELSE UNION { { <<x>> \o p : p \in Perms(S \ {x}) } : x \in S }

Ascending(S) ==
    [r \in 1 .. Cardinality(S) |->
        CHOOSE x \in S : Cardinality({ y \in S : y <= x }) = r]

Reverse(s) == [i \in 1 .. Len(s) |-> s[Len(s) + 1 - i]]

Rotations(s) ==
    { SubSeq(s, k, Len(s)) \o SubSeq(s, 1, k - 1) : k \in 1 .. Len(s) }

\* Every order for a small set; for a larger one the rotations of the
\* ascending and of the descending list.
ListOrders(S) ==
    IF Cardinality(S) <= MaxShuffle THEN Perms(S)
    ELSE Rotations(Ascending(S)) \cup Rotations(Reverse(Ascending(S)))

----------------------------------------------------------------------------
(* list.sort(key=int.bit_count, reverse=True): a stable sort, so the element
   at index i moves behind every element of a greater key and behind the
   elements of an equal key that precede it *)

\* SortRank without reverse=True: ascending keys.
SortRankAscending(keys, i) ==
    Cardinality({ j \in DOMAIN keys : keys[j] < keys[i] })
    + Cardinality({ j \in 1 .. i : keys[j] = keys[i] })

\* The index in the sorted list of the element at index i, from the keys.
SortRank(keys, i) ==
    Cardinality({ j \in DOMAIN keys : keys[j] > keys[i] })
    + Cardinality({ j \in 1 .. i : keys[j] = keys[i] })

SortByBitCount(s) ==
    LET keys == [i \in 1 .. Len(s) |-> bit_count(s[i])]
        at   == [i \in 1 .. Len(s) |-> SortRank(keys, i)]
    IN  [r \in 1 .. Len(s) |-> s[CHOOSE i \in 1 .. Len(s) : at[i] = r]]

----------------------------------------------------------------------------
(* State *)

VARIABLES
    pc,         \* "start", "search", "done", "error", "built"
    m, n,       \* the arguments
    err,        \* the exception raised, "" when none
    full_mask,  \* board.full_mask (FULL)
    returned,   \* the list enumerate_lines_bitmask returned
    lines,      \* board.lines
    memo,       \* the dict memo
    stack,      \* the active calls of win, the innermost last
    ret,        \* the value a call of win has just returned, <<>> once consumed
    result,     \* <<>>, or <<result>> once win(start) has returned to has_forced_win
    ref,        \* harness: <<>>, or the record of the first finished solve
    visited     \* history: the states win has been called with in this solve

vars == <<pc, m, n, err, full_mask, returned, lines, memo, stack, ret, result, ref, visited>>

EmptyMemo == [s \in {} |-> FALSE]

\* FreshMemo of a table that outlives the call (a shared dict).
FreshMemoShared(old) == old

\* memo: dict[int, bool] = {}
FreshMemo(old) == EmptyMemo

\* MemoPut that stores nothing.
MemoPutNothing(d, state, value) == d

\* MemoPut that stores the opposite value.
MemoPutNegated(d, state, value) ==
    [s \in (DOMAIN d) \cup {state} |-> IF s = state THEN ~value ELSE d[s]]

\* memo[state] = value
MemoPut(d, state, value) ==
    [s \in (DOMAIN d) \cup {state} |-> IF s = state THEN value ELSE d[s]]

\* len(memo)
states_computed == Cardinality(DOMAIN memo)

\* (1 << (m * n)) - 1
FullMask(m_, n_) == Shl1(m_ * n_) - 1

\* BoardDims with one column too many.
BoardDimsWide(m_, n_) == <<m_, n_ + 1>>

\* board = Board(m, n): the dimensions has_forced_win hands to Board
BoardDims(m_, n_) == <<m_, n_>>

\* Applicable without the skip of a line that has no present point.
ApplicableAlways(state, line) == TRUE

\* (state & line) == 0 is false: the line is played
Applicable(state, line) == BitAnd(state, line) # 0

\* ChildLost without the `not`.
ChildLostNoNot(value) == value

\* if not win(next_state): the value win(next_state) returned makes the test true
ChildLost(value) == ~value

\* next_state that flips the points of the line instead of clearing them.
next_state_flip(state, line, FULL) == BitXor(state, line)

\* next_state that clears nothing.
next_state_same(state, line, FULL) == state

\* next_state = state & (FULL ^ line)
next_state(state, line, FULL) == BitAnd(state, BitXor(FULL, line))

\* The inputs: int(input()) of any sign; m, n >= 1 up to MaxPoints points.
Dims ==
    { d \in ((0 - 1) .. MaxPoints) \X ((0 - 1) .. MaxPoints) :
        (d[1] >= 1 /\ d[2] >= 1) => d[1] * d[2] <= MaxPoints }

Frame(state) == [state |-> state, idx |-> 0, phase |-> "entry"]

Top == stack[Len(stack)]
Pop == SubSeq(stack, 1, Len(stack) - 1)
SetTop(f) == [stack EXCEPT ![Len(stack)] = f]

Init ==
    /\ pc = "start"
    /\ \E d \in Dims : m = d[1] /\ n = d[2]
    /\ err = ""
    /\ full_mask = 0
    /\ returned = <<>>
    /\ lines = <<>>
    /\ memo = EmptyMemo
    /\ stack = <<>>
    /\ ret = <<>>
    /\ result = <<>>
    /\ ref = <<>>
    /\ visited = {}

----------------------------------------------------------------------------
(* Board.__init__ *)

\* 1 << (m * n) raises ValueError (negative shift count) when m * n < 0
ShiftFails(m_, n_) == m_ * n_ < 0

\* self.full_mask, self.lines of Board(m_, n_)
BoardInit(m_, n_) ==
    /\ ~ShiftFails(m_, n_)
    /\ full_mask' = FullMask(m_, n_)
    /\ \E order \in ListOrders(enumerate_lines_bitmask(m_, n_)) :
          /\ returned' = order
          /\ lines' = SortByBitCount(order)

----------------------------------------------------------------------------
(* has_forced_win *)

\* board = Board(m, n) raises
StartError ==
    /\ pc = "start"
    /\ ShiftFails(BoardDims(m, n)[1], BoardDims(m, n)[2])
    /\ pc' = "error"
    /\ err' = "ValueError"
    /\ UNCHANGED <<m, n, full_mask, returned, lines, memo, stack, ret, result, ref, visited>>

\* board, FULL, lines, memo, and the call win(start)
Start ==
    /\ pc = "start"
    /\ BoardInit(BoardDims(m, n)[1], BoardDims(m, n)[2])
    /\ memo' = FreshMemo(memo)
    /\ stack' = <<Frame(full_mask')>>
    /\ visited' = {full_mask'}
    /\ pc' = "search"
    /\ UNCHANGED <<m, n, err, ret, result, ref>>

\* return value from the innermost call
Return(value) ==
    /\ stack' = Pop
    /\ ret' = <<[state |-> Top.state, value |-> value]>>

InCall(phase) == pc = "search" /\ stack # <<>> /\ Top.phase = phase

\* if state == 0: return False
WinBase ==
    /\ InCall("entry")
    /\ Top.state = 0
    /\ Return(FALSE)
    /\ UNCHANGED <<pc, m, n, err, full_mask, returned, lines, memo, result, ref, visited>>

\* if state in memo: return memo[state]
WinMemoHit ==
    /\ InCall("entry")
    /\ Top.state # 0
    /\ Top.state \in DOMAIN memo
    /\ Return(memo[Top.state])
    /\ UNCHANGED <<pc, m, n, err, full_mask, returned, lines, memo, result, ref, visited>>

\* WinCompute without the test of memo: the loop is entered again for a
\* state that has its entry.
WinComputeAgain ==
    /\ InCall("entry")
    /\ Top.state # 0
    /\ stack' = SetTop([Top EXCEPT !.phase = "loop", !.idx = 1])
    /\ UNCHANGED <<pc, m, n, err, full_mask, returned, lines, memo, ret, result, ref, visited>>

\* the for loop is entered
WinCompute ==
    /\ InCall("entry")
    /\ Top.state # 0
    /\ Top.state \notin DOMAIN memo
    /\ stack' = SetTop([Top EXCEPT !.phase = "loop", !.idx = 1])
    /\ UNCHANGED <<pc, m, n, err, full_mask, returned, lines, memo, ret, result, ref, visited>>

\* if (state & line) == 0: continue
LoopSkip ==
    /\ InCall("loop")
    /\ Top.idx <= Len(lines)
    /\ ~Applicable(Top.state, lines[Top.idx])
    /\ stack' = SetTop([Top EXCEPT !.idx = @ + 1])
    /\ UNCHANGED <<pc, m, n, err, full_mask, returned, lines, memo, ret, result, ref, visited>>

\* win(next_state) is called
LoopCall ==
    /\ InCall("loop")
    /\ Top.idx <= Len(lines)
    /\ Applicable(Top.state, lines[Top.idx])
    /\ stack' = SetTop([Top EXCEPT !.phase = "wait"])
                  \o <<Frame(next_state(Top.state, lines[Top.idx], full_mask))>>
    /\ visited' = visited \cup {next_state(Top.state, lines[Top.idx], full_mask)}
    /\ UNCHANGED <<pc, m, n, err, full_mask, returned, lines, memo, ret, result, ref>>

\* CallLost that writes the entry and goes on with the next line.
CallLostKeepsLooking ==
    /\ InCall("wait")
    /\ ret # <<>>
    /\ ChildLost(ret[1].value)
    /\ memo' = MemoPut(memo, Top.state, TRUE)
    /\ stack' = SetTop([Top EXCEPT !.phase = "loop", !.idx = @ + 1])
    /\ ret' = <<>>
    /\ UNCHANGED <<pc, m, n, err, full_mask, returned, lines, result, ref, visited>>

\* CallLost that returns True without the write to memo.
CallLostNoMemo ==
    /\ InCall("wait")
    /\ ret # <<>>
    /\ ChildLost(ret[1].value)
    /\ Return(TRUE)
    /\ UNCHANGED <<pc, m, n, err, full_mask, returned, lines, memo, result, ref, visited>>

\* if not win(next_state): memo[state] = True; return True
CallLost ==
    /\ InCall("wait")
    /\ ret # <<>>
    /\ ChildLost(ret[1].value)
    /\ memo' = MemoPut(memo, Top.state, TRUE)
    /\ Return(TRUE)
    /\ UNCHANGED <<pc, m, n, err, full_mask, returned, lines, result, ref, visited>>

\* CallWon that records a loss and returns at the first line that does not win.
CallWonGivesUp ==
    /\ InCall("wait")
    /\ ret # <<>>
    /\ ~ChildLost(ret[1].value)
    /\ memo' = MemoPut(memo, Top.state, FALSE)
    /\ Return(FALSE)
    /\ UNCHANGED <<pc, m, n, err, full_mask, returned, lines, result, ref, visited>>

\* CallWon that goes on with the same line instead of the next one.
CallWonSameLine ==
    /\ InCall("wait")
    /\ ret # <<>>
    /\ ~ChildLost(ret[1].value)
    /\ stack' = SetTop([Top EXCEPT !.phase = "loop"])
    /\ ret' = <<>>
    /\ UNCHANGED <<pc, m, n, err, full_mask, returned, lines, memo, result, ref, visited>>

\* win(next_state) was True: the loop goes on
CallWon ==
    /\ InCall("wait")
    /\ ret # <<>>
    /\ ~ChildLost(ret[1].value)
    /\ stack' = SetTop([Top EXCEPT !.phase = "loop", !.idx = @ + 1])
    /\ ret' = <<>>
    /\ UNCHANGED <<pc, m, n, err, full_mask, returned, lines, memo, result, ref, visited>>

\* the loop is exhausted: memo[state] = False; return False
LoopExhausted ==
    /\ InCall("loop")
    /\ Top.idx > Len(lines)
    /\ memo' = MemoPut(memo, Top.state, FALSE)
    /\ Return(FALSE)
    /\ UNCHANGED <<pc, m, n, err, full_mask, returned, lines, result, ref, visited>>

\* result = win(start), and the two prints
Report ==
    /\ pc = "search"
    /\ stack = <<>>
    /\ ret # <<>>
    /\ result' = <<ret[1].value>>
    /\ ret' = <<>>
    /\ pc' = "done"
    /\ UNCHANGED <<m, n, err, full_mask, returned, lines, memo, stack, ref, visited>>

\* The steps of win
Search ==
    \/ WinBase
    \/ WinMemoHit
    \/ WinCompute
    \/ LoopSkip
    \/ LoopCall
    \/ CallLost
    \/ CallWon
    \/ LoopExhausted

Next ==
    \/ StartError
    \/ Start
    \/ Search
    \/ Report

Spec == Init /\ [][Next]_vars

----------------------------------------------------------------------------
(* A caller that constructs Board(m, n) alone *)

CatDims == ((0 - 1) .. CatMaxDim) \X ((0 - 1) .. CatMaxDim)

InitCatalog ==
    /\ pc = "start"
    /\ \E d \in CatDims : m = d[1] /\ n = d[2]
    /\ err = ""
    /\ full_mask = 0
    /\ returned = <<>>
    /\ lines = <<>>
    /\ memo = EmptyMemo
    /\ stack = <<>>
    /\ ret = <<>>
    /\ result = <<>>
    /\ ref = <<>>
    /\ visited = {}

NewBoard ==
    /\ pc = "start"
    /\ BoardInit(m, n)
    /\ pc' = "built"
    /\ UNCHANGED <<m, n, err, memo, stack, ret, result, ref, visited>>

NewBoardError ==
    /\ pc = "start"
    /\ ShiftFails(m, n)
    /\ pc' = "error"
    /\ err' = "ValueError"
    /\ UNCHANGED <<m, n, full_mask, returned, lines, memo, stack, ret, result, ref, visited>>

NextCatalog == NewBoard \/ NewBoardError

SpecCatalog == InitCatalog /\ [][NextCatalog]_vars

----------------------------------------------------------------------------
(* A caller that calls has_forced_win again and again on valid boards and   *)
(* keeps what the first call reported.                                      *)

RunDims ==
    { d \in (1 .. RunMaxPoints) \X (1 .. RunMaxPoints) : d[1] * d[2] <= RunMaxPoints }

InitRuns ==
    /\ pc = "start"
    /\ \E d \in RunDims : m = d[1] /\ n = d[2]
    /\ err = ""
    /\ full_mask = 0
    /\ returned = <<>>
    /\ lines = <<>>
    /\ memo = EmptyMemo
    /\ stack = <<>>
    /\ ret = <<>>
    /\ result = <<>>
    /\ ref = <<>>
    /\ visited = {}

\* has_forced_win has returned and its board is gone; the caller calls it with
\* new arguments.  The table of the finished solve is replaced when the next
\* solve makes its own.
Again ==
    /\ pc = "done"
    /\ \E d \in RunDims : m' = d[1] /\ n' = d[2]
    /\ pc' = "start"
    /\ result' = <<>>
    /\ ref' = IF ref = <<>>
              THEN <<[m |-> m, n |-> n, result |-> result[1], memo |-> memo,
                      gap |-> FALSE]>>
              ELSE <<[ref[1] EXCEPT !.gap = TRUE]>>
    /\ full_mask' = 0
    /\ returned' = <<>>
    /\ lines' = <<>>
    /\ visited' = {}
    /\ UNCHANGED <<err, memo, stack, ret>>

\* The dimensions are valid, so Board never raises.
NextRuns ==
    \/ Start
    \/ Search
    \/ Report
    \/ Again

SpecRuns == InitRuns /\ [][NextRuns]_vars

----------------------------------------------------------------------------
(* Reference definitions the properties compare the program with *)

Range(s) == { s[i] : i \in DOMAIN s }

\* The game value of a state by plain negamax over the lines of a list.
RECURSIVE RefWin(_, _, _)
RefWin(state, L, FULL) ==
    /\ state # 0
    /\ \E i \in DOMAIN L :
          /\ BitAnd(state, L[i]) # 0
          /\ ~RefWin(BitAnd(state, BitXor(FULL, L[i])), L, FULL)

GridPoints(m_, n_) == (0 .. (m_ - 1)) \X (0 .. (n_ - 1))

Collinear(p, q, r) ==
    (q[1] - p[1]) * (r[2] - p[2]) - (q[2] - p[2]) * (r[1] - p[1]) = 0

RECURSIVE MaskOfPoints(_, _)
MaskOfPoints(P, n_) ==
    IF P = {} THEN 0
    ELSE LET p == CHOOSE q \in P : TRUE
         IN  2 ^ (p[1] * n_ + p[2]) + MaskOfPoints(P \ {p}, n_)

\* The maximal collinear point sets of the grid, under id = x * n + y.
RefLines(m_, n_) ==
    { MaskOfPoints({ r \in GridPoints(m_, n_) : Collinear(pq[1], pq[2], r) }, n_) :
        pq \in { c \in GridPoints(m_, n_) \X GridPoints(m_, n_) : c[1] # c[2] } }

Constructed == pc \in {"built", "search", "done"}
ValidBoard == m >= 1 /\ n >= 1

\* The line of the call that frame k of the stack is waiting for.
CallLine(k) == lines[stack[k].idx]

\* The frames that have called win and wait for its value.  The callee of the
\* innermost one may have returned already (ret), the others' callee is the
\* next frame.
Callers == { k \in 1 .. Len(stack) : stack[k].phase = "wait" }
Nested == { k \in 1 .. (Len(stack) - 1) : stack[k].phase = "wait" }

SameBoard == ref # <<>> /\ ref[1].m = m /\ ref[1].n = n

----------------------------------------------------------------------------
(* Properties *)

\* C1: on a board with m, n >= 1, every value a call of win returns, the
\* root call's included, is the negamax value of its state: false for 0,
\* otherwise true iff some line of the catalog with a present point leads to
\* a state of value false.
C1_WinIsNegamax ==
    ValidBoard =>
      /\ (pc = "search" /\ ret # <<>>) =>
            ret[1].value = RefWin(ret[1].state, lines, full_mask)
      /\ pc = "done" => result[1] = RefWin(full_mask, lines, full_mask)

C1_Witness ==
    /\ pc = "search" /\ m = 2 /\ n = 4 /\ stack = <<>> /\ ret # <<>>
    /\ ret[1].state = full_mask /\ ret[1].value
    /\ \E s \in DOMAIN memo : ~memo[s]

\* C2: for m, n >= 1 the list enumerate_lines_bitmask returns holds exactly
\* the maximal collinear point sets of at least two points, each once, none
\* a proper subset of another; the 2 x 2 board has 6 lines of 2 points.
C2_LinesExact ==
    (Constructed /\ ValidBoard) =>
      LET R == RefLines(m, n)
      IN  /\ Range(returned) = R
          /\ Len(returned) = Cardinality(R)
          /\ \A a \in Range(returned) : \A b \in Range(returned) :
                BitAnd(a, b) = a => a = b
          /\ \A a \in Range(returned) : bit_count(a) >= 2
          /\ (m = 2 /\ n = 2) =>
                (Len(returned) = 6 /\ \A a \in Range(returned) : bit_count(a) = 2)

C2_Witness ==
    /\ pc = "built" /\ m = 3 /\ n = 3
    /\ Len(returned) = 20
    /\ \E a \in Range(returned) : bit_count(a) = 3
    /\ \E a \in Range(returned) : bit_count(a) = 2

\* C3 as stated: every line win plays from a state has all of its points
\* present in that state.
C3_WholeLinePresent ==
    \A k \in Callers : BitAnd(stack[k].state, CallLine(k)) = CallLine(k)

\* C3 amended: every line win plays from a state has at least one point
\* present in that state, and the callee's state is state & (FULL ^ line).
C3_LineHasPresentPoint ==
    /\ \A k \in Callers : BitAnd(stack[k].state, CallLine(k)) # 0
    /\ \A k \in Nested :
          stack[k + 1].state =
              BitAnd(stack[k].state, BitXor(full_mask, CallLine(k)))

C3_Witness ==
    \E k \in Nested :
        /\ BitAnd(stack[k].state, CallLine(k)) # 0
        /\ BitAnd(stack[k].state, CallLine(k)) # CallLine(k)

\* C4: with m <= 0 or n <= 0 has_forced_win ends in an error before any
\* state is evaluated: no call of win, no memo entry, no verdict.
C4_InvalidDimensionRejected ==
    ((m <= 0 \/ n <= 0) /\ pc # "start") =>
      /\ pc = "error"
      /\ err # ""
      /\ stack = <<>>
      /\ ret = <<>>
      /\ memo = EmptyMemo
      /\ result = <<>>

\* C5: on the 1 x 1 board (m, n >= 1, m * n < 2) the catalog is empty and
\* the solve ends with the verdict false and one memo entry, the root's.
C5_SinglePoint ==
    (ValidBoard /\ m * n < 2) =>
      /\ Constructed => (returned = <<>> /\ lines = <<>>)
      /\ pc = "done" =>
            /\ result = <<FALSE>>
            /\ states_computed = 1
            /\ DOMAIN memo = {full_mask}

C5_Witness == pc = "done" /\ m = 1 /\ n = 1 /\ states_computed = 1

\* C6: on a 1 x n board, n >= 2, the catalog is the one line full_mask and
\* the verdict is true.
C6_SingleRow ==
    (m = 1 /\ n >= 2) =>
      /\ Constructed => (Len(lines) = 1 /\ lines[1] = full_mask)
      /\ pc = "done" => result = <<TRUE>>

C6_Witness == pc = "done" /\ m = 1 /\ n = 5 /\ result = <<TRUE>>

\* C7: on the 2 x 2 board, in whatever order the lines are iterated, the
\* solve ends with fewer than 16 memo entries.
C7_FewerThanAllSubsets ==
    (pc = "done" /\ m = 2 /\ n = 2) => states_computed < 16

C7_Witness ==
    /\ pc = "done" /\ m = 2 /\ n = 2
    /\ states_computed = 11
    /\ lines # Ascending(Range(lines))

\* C8: a solve of the board the first solve was of reports the first solve's
\* verdict, also after other solves; every solve starts win(start) with an
\* empty memo table and only ever holds entries for states of its own board.
C8_RunsIndependent ==
    /\ (pc = "done" /\ SameBoard) => result[1] = ref[1].result
    /\ (pc = "search" /\ Len(stack) = 1 /\ Top.phase = "entry") => memo = EmptyMemo
    /\ pc = "search" => \A s \in DOMAIN memo : BitAnd(s, full_mask) = s

C8_Witness ==
    /\ pc = "done" /\ SameBoard /\ ref[1].gap
    /\ m = 1 /\ n = 4
    /\ result = <<TRUE>>

\* C9: a solve of the board the first solve was of, whatever the order of
\* its lines, gives every state both solves memoized the same value, and its
\* verdict is the value the first solve gave the root.
C9_OrderIndependent ==
    (SameBoard /\ pc \in {"search", "done"}) =>
      /\ \A s \in (DOMAIN memo) \cap (DOMAIN ref[1].memo) : memo[s] = ref[1].memo[s]
      /\ pc = "done" => result[1] = ref[1].memo[full_mask]

C9_Witness ==
    /\ pc = "done" /\ SameBoard
    /\ DOMAIN memo # DOMAIN ref[1].memo
    /\ result[1] = ref[1].result

\* C10: Board.lines is in non-increasing order of population count and holds
\* the lines enumerate_lines_bitmask returned.
C10_SortedByBitCount ==
    Constructed =>
      /\ \A i \in 1 .. Len(lines) : \A j \in 1 .. Len(lines) :
            i < j => bit_count(lines[i]) >= bit_count(lines[j])
      /\ Len(lines) = Len(returned)
      /\ Range(lines) = Range(returned)

C10_Witness ==
    /\ pc = "built"
    /\ lines # returned
    /\ \E i \in 1 .. Len(returned) : \E j \in 1 .. Len(returned) :
          i < j /\ bit_count(returned[i]) < bit_count(returned[j])

\* C11: every state win is called with from inside win has strictly fewer
\* present points than the state of its caller, so along the chain of active
\* calls the population count strictly decreases.
C11_PopcountShrinks ==
    /\ \A k \in 1 .. (Len(stack) - 1) :
          bit_count(stack[k + 1].state) < bit_count(stack[k].state)
    /\ \A k \in 1 .. Len(stack) :
          bit_count(stack[k].state) + (k - 1) <= bit_count(stack[1].state)

C11_Witness ==
    /\ pc = "search" /\ Len(stack) >= 4
    /\ \E k \in 1 .. (Len(stack) - 1) :
          bit_count(stack[k + 1].state) = bit_count(stack[k].state) - 1
    /\ \E k \in 1 .. (Len(stack) - 1) :
          bit_count(stack[k + 1].state) <= bit_count(stack[k].state) - 2

----------------------------------------------------------------------------
(* has_forced_win runs its statements one after the other without waiting  *)
(* for anything: once it has made its board, a step of win that can be      *)
(* taken is taken, and so is the report of the verdict.                     *)

SpecFair == Init /\ [][Next]_vars /\ WF_vars(Search) /\ WF_vars(Report)

\* C12: on a board with m, n >= 1 the search terminates: once win(full_mask)
\* has been called, it returns and has_forced_win reports the verdict.
C12_Terminates ==
    (pc = "search" /\ ValidBoard) ~> (pc = "done" /\ stack = <<>> /\ result # <<>>)

C12_Witness ==
    /\ pc = "done" /\ m = 2 /\ n = 3 /\ stack = <<>>
    /\ 0 \in visited
    /\ states_computed >= 30

\* C13: during a solve of a board with m, n >= 1 the number of active calls
\* of win, the root call and a call with state 0 included, is at most m * n.
C13_DepthBounded ==
    (ValidBoard /\ pc \in {"search", "done"}) => Len(stack) <= m * n

C13_Witness ==
    /\ pc = "search" /\ m = 2 /\ n = 3
    /\ Len(stack) = m * n
    /\ Top.state = 0

\* The call at the top of the stack has found its state in memo.
MemoHit == pc = "search" /\ stack # <<>> /\ Top.phase = "entry" /\ Top.state \in DOMAIN memo

\* C14: within a solve an entry of memo, once written, is never written
\* again, changed or removed; a call of win with a state that has its entry
\* returns the stored value in its next step without entering the loop, so
\* no call is in the loop for a state that has an entry.
C14_MemoWriteOnce ==
    /\ [](\A k \in 1 .. Len(stack) :
            stack[k].phase \in {"loop", "wait"} => stack[k].state \notin DOMAIN memo)
    /\ [][\A s \in DOMAIN memo : s \in DOMAIN memo' /\ memo'[s] = memo[s]]_vars
    /\ [][MemoHit =>
            /\ stack' = Pop
            /\ ret' = <<[state |-> Top.state, value |-> memo[Top.state]]>>
            /\ memo' = memo]_vars

C14_Witness ==
    /\ MemoHit /\ m = 2 /\ n = 3
    /\ ~memo[Top.state]
    /\ \E s \in DOMAIN memo : memo[s] /\ s # full_mask

\* C15 as stated, on boards with m, n >= 1: when a solve has completed, the
\* keys of memo are the states win was called with, so len(memo) is their
\* number.
C15_MemoIsVisited ==
    (pc = "done" /\ ValidBoard) =>
      /\ DOMAIN memo = visited
      /\ states_computed = Cardinality(visited)

\* C15 amended: when a solve has completed, the keys of memo are the
\* non-zero states win was called with, so len(memo) is their number; the
\* state 0 is answered by the base case and gets no entry.
C15_MemoIsVisitedNonZero ==
    /\ pc = "done" =>
          /\ DOMAIN memo = visited \ {0}
          /\ states_computed = Cardinality(visited \ {0})
    /\ 0 \notin DOMAIN memo

C15_Witness ==
    /\ pc = "done" /\ m = 2 /\ n = 2
    /\ 0 \in visited
    /\ states_computed = Cardinality(visited) - 1
    /\ states_computed = 10

\* A call win(next_state) has just returned False to the call at the top of
\* the stack.
ChildReturnedFalse ==
    pc = "search" /\ stack # <<>> /\ Top.phase = "wait" /\ ret # <<>> /\ ~ret[1].value

\* C16: when the call win(next_state) made for a state s returns False, the
\* next step of win(s) writes memo[s] = True and returns True: the call of s
\* ends there, with no later line examined and no further call of win.
C16_ShortCircuit ==
    [][ChildReturnedFalse =>
          /\ stack' = Pop
          /\ ret' = <<[state |-> Top.state, value |-> TRUE]>>
          /\ DOMAIN memo' = (DOMAIN memo) \cup {Top.state}
          /\ memo'[Top.state]
          /\ visited' = visited]_vars

\* The short circuit leaves lines unexamined that have a present point.
C16_Witness ==
    /\ ChildReturnedFalse
    /\ m = 2 /\ n = 3
    /\ ret[1].state # 0
    /\ \E i \in (Top.idx + 1) .. Len(lines) : BitAnd(Top.state, lines[i]) # 0

\* The successors of state s by the lines that have a present point in s.
Successors(s) ==
    { BitAnd(s, BitXor(full_mask, lines[i])) :
        i \in { j \in DOMAIN lines : BitAnd(s, lines[j]) # 0 } }

\* The entry of s in the table d agrees with the rule.
Consistent(s, d) ==
    LET succ == Successors(s)
    IN  IF d[s]
        THEN \E t \in succ : t = 0 \/ (t \in DOMAIN d /\ ~d[t])
        ELSE \A t \in succ : t # 0 /\ t \in DOMAIN d /\ d[t]

\* C17: at every moment of a solve each entry of memo agrees with the rule:
\* an entry True has a successor that is 0 or has the entry False, an entry
\* False has only successors that are non-zero and have the entry True.
\* Every entry agrees with the rule in the table of the moment it is written,
\* the entries it rests on are never changed or removed afterwards, and every
\* entry of the final table agrees with the rule.
C17_MemoLocallyConsistent ==
    /\ [][\A s \in DOMAIN memo' : s \notin DOMAIN memo => Consistent(s, memo')]_vars
    /\ [][\A s \in DOMAIN memo : s \in DOMAIN memo' /\ memo'[s] = memo[s]]_vars
    /\ [](pc = "done" => \A s \in DOMAIN memo : Consistent(s, memo))

C17_Witness ==
    /\ pc = "search" /\ m = 2 /\ n = 3 /\ stack # <<>>
    /\ \E s \in DOMAIN memo : ~memo[s] /\ Cardinality(Successors(s)) >= 3
    /\ \E s \in DOMAIN memo : memo[s] /\ 0 \notin Successors(s)

\* The points (bit positions) of a mask.
RECURSIVE Bits(_)
Bits(a) ==
    IF a = 0 THEN {}
    ELSE (IF a % 2 = 1 THEN {0} ELSE {}) \cup { b + 1 : b \in Bits(a \div 2) }

\* C18: the state of a call made from win(s) along a line is s without the
\* points of the line: the points of s that are not on the line stay, no
\* point is added, and every state win is called with has only points of the
\* board (is a subset of full_mask).
C18_MoveClearsLineOnly ==
    /\ \A k \in Nested :
          Bits(stack[k + 1].state) = Bits(stack[k].state) \ Bits(CallLine(k))
    /\ \A s \in visited : Bits(s) \subseteq Bits(full_mask)
    /\ \A s \in visited : Bits(s) \subseteq 0 .. (m * n - 1)

C18_Witness ==
    \E k \in Nested :
        /\ Bits(CallLine(k)) \cap Bits(stack[k].state) # {}
        /\ Bits(CallLine(k)) \ Bits(stack[k].state) # {}
        /\ Bits(stack[k + 1].state) # {}
        /\ m = 2 /\ n = 4

\* C19: for m, n >= 1 two different masks of the list enumerate_lines_bitmask
\* returns have at most one point in common, and no mask is listed twice.
C19_LinesMeetInOnePoint ==
    (Constructed /\ ValidBoard) =>
      /\ \A i \in DOMAIN returned : \A j \in DOMAIN returned :
            i < j =>
              /\ returned[i] # returned[j]
              /\ bit_count(BitAnd(returned[i], returned[j])) <= 1

C19_Witness ==
    /\ pc = "built" /\ m = 3 /\ n = 3
    /\ \E a \in Range(returned) : \E b \in Range(returned) :
          a # b /\ bit_count(BitAnd(a, b)) = 1 /\ bit_count(a) = 3 /\ bit_count(b) = 3
    /\ \E a \in Range(returned) : \E b \in Range(returned) :
          a # b /\ BitAnd(a, b) = 0

\* The state s is not 0 and no line of the catalog has a point present in s.
NoLegalMove(s) == s # 0 /\ \A i \in DOMAIN lines : BitAnd(s, lines[i]) = 0

\* C20: on a board with m, n >= 1 and m * n >= 2 the lines of the catalog
\* cover every point of the board, every non-zero state of a call of win has
\* a line with a present point, and so has every state with the entry False;
\* a non-zero state without such a line occurs on the 1 x 1 board only.
C20_EveryPointOnALine ==
    (ValidBoard /\ pc \in {"search", "done"}) =>
      /\ m * n >= 2 =>
            /\ UNION { Bits(lines[i]) : i \in DOMAIN lines } = Bits(full_mask)
            /\ \A k \in 1 .. Len(stack) : ~NoLegalMove(stack[k].state)
            /\ pc = "done" =>
                  \A s \in visited \cup DOMAIN memo : ~NoLegalMove(s)
      /\ (\E k \in 1 .. Len(stack) : NoLegalMove(stack[k].state)) => (m = 1 /\ n = 1)

C20_Witness ==
    /\ pc = "done" /\ m = 2 /\ n = 3
    /\ result = <<FALSE>>
    /\ \E s \in DOMAIN memo : ~memo[s] /\ s # full_mask /\ ~NoLegalMove(s)

====
